---- MODULE Spec2Model ----
(***************************************************************************)
(* A model of mona-date (src/src/index.js): parseDate, an English date     *)
(* parser built from parser combinators.  A parser is a pure function of   *)
(* (input, offset); it is modelled as an operator that returns a reply     *)
(* [ok, val, off].  Offsets count the characters consumed so far.          *)
(* The calendar library (moment) and the combinator library (mona) are     *)
(* imported by index.js; they are modelled by what the calls of index.js   *)
(* do.                                                                     *)
(***************************************************************************)
EXTENDS Integers, Sequences, FiniteSets, TLC

(***************************************************************************)
(* Characters and strings                                                  *)
(***************************************************************************)
Ch(s, i) == SubSeq(s, i, i)

DigitChars == "0123456789"

UpperChars == "ABCDEFGHIJKLMNOPQRSTUVWXYZ"

LowerChars == "abcdefghijklmnopqrstuvwxyz"

\* the whitespace characters matched by spaces()
Whitespace == {" ", "\t", "\n", "\r"}

IsDigit(c) == \E k \in 1..10 : Ch(DigitChars, k) = c

DigitVal(c) == (CHOOSE k \in 1..10 : Ch(DigitChars, k) = c) - 1

LowerCh(c) ==
  IF \E k \in 1..26 : Ch(UpperChars, k) = c
  THEN Ch(LowerChars, CHOOSE k \in 1..26 : Ch(UpperChars, k) = c)
  ELSE c

RECURSIVE Lower(_)
Lower(s) == IF s = "" THEN "" ELSE LowerCh(Head(s)) \o Lower(Tail(s))

\* the value of a string of decimal digits (parseInt / toInt)
RECURSIVE ToInt(_)
ToInt(s) ==
  IF s = "" THEN 0 ELSE 10 * ToInt(SubSeq(s, 1, Len(s) - 1)) + DigitVal(Ch(s, Len(s)))

\* the substring of s between two offsets
Slice(s, from, to) == SubSeq(s, from + 1, to)

(***************************************************************************)
(* Parser replies                                                          *)
(***************************************************************************)
NoDate == [y |-> 0, m |-> 0, d |-> 0, tod |-> 0]

Ok(v, off) == [ok |-> TRUE, val |-> v, off |-> off]

\* a failed numeric or textual parser
Fail(off) == [ok |-> FALSE, val |-> 0, off |-> off]

\* a failed date parser
FailDate(off) == [ok |-> FALSE, val |-> NoDate, off |-> off]

(***************************************************************************)
(* Primitive parsers of the combinator library                             *)
(***************************************************************************)
\* string(lit): the literal at the offset, or failure without consumption
string(lit, s, i) ==
  IF i + Len(lit) <= Len(s) /\ Slice(s, i, i + Len(lit)) = lit
  THEN Ok(0, i + Len(lit))
  ELSE Fail(i)

\* the offset after the longest run of whitespace starting at i
RECURSIVE SpacesEnd(_, _)
SpacesEnd(s, i) ==
  IF i < Len(s) /\ Ch(s, i + 1) \in Whitespace THEN SpacesEnd(s, i + 1) ELSE i

\* spaces(): one or more whitespace characters
spaces(s, i) == IF SpacesEnd(s, i) > i THEN Ok(0, SpacesEnd(s, i)) ELSE Fail(i)

\* maybe(spaces()): never fails
maybeSpaces(s, i) == SpacesEnd(s, i)

\* the offset after the longest run of digits starting at i
RECURSIVE DigitsEnd(_, _)
DigitsEnd(s, i) ==
  IF i < Len(s) /\ IsDigit(Ch(s, i + 1)) THEN DigitsEnd(s, i + 1) ELSE i

\* natural(): one or more digits
natural(s, i) ==
  IF DigitsEnd(s, i) > i
  THEN Ok(ToInt(Slice(s, i, DigitsEnd(s, i))), DigitsEnd(s, i))
  ELSE Fail(i)

\* integer(): an optional sign, then a natural number
integer(s, i) ==
  LET neg == string("-", s, i).ok
      signed == neg \/ string("+", s, i).ok
      n == natural(s, IF signed THEN i + 1 ELSE i)
  IN  IF n.ok THEN Ok(IF neg THEN 0 - n.val ELSE n.val, n.off) ELSE Fail(i)

\* text(noneOf(' ')): the longest (possibly empty) run of non-blank characters
RECURSIVE TextEnd(_, _)
TextEnd(s, i) ==
  IF i < Len(s) /\ Ch(s, i + 1) # " " THEN TextEnd(s, i + 1) ELSE i

\* eof()
eof(s, i) == i = Len(s)

(***************************************************************************)
(* The calendar library: moment(str, format) in its forgiving (non-strict) *)
(* mode, as momentParser calls it.  A format token is matched against the  *)
(* first place of the string where it fits, unused characters are ignored, *)
(* and the result is invalid when nothing was parsed or a field overflows. *)
(***************************************************************************)
MonthsLong ==
  << "january", "february", "march", "april", "may", "june", "july", "august",
     "september", "october", "november", "december" >>

MonthsShort ==
  << "jan", "feb", "mar", "apr", "may", "jun", "jul", "aug", "sep", "oct",
     "nov", "dec" >>

\* low begins with the month name
StartsWith(low, name) == Len(low) >= Len(name) /\ SubSeq(low, 1, Len(name)) = name

\* the month names are matched without regard to case
IsMonthName(low, k) == StartsWith(low, MonthsLong[k]) \/ StartsWith(low, MonthsShort[k])

\* the offset of the first digit of str at or after i (Len(str) when none)
RECURSIVE FirstDigit(_, _)
FirstDigit(str, i) ==
  IF i < Len(str) /\ ~IsDigit(Ch(str, i + 1)) THEN FirstDigit(str, i + 1) ELSE i

\* the first run of at most n digits of str ("" when str has no digit)
DigitRun(str, n) ==
  LET p == FirstDigit(str, 0)
      e == DigitsEnd(str, p)
  IN  Slice(str, p, IF e > p + n THEN p + n ELSE e)

\* a two-digit year read by the YYYY token
parseTwoDigitYear(v) == v + (IF v > 68 THEN 1900 ELSE 2000)

\* moment(str, fmt): validity and the parsed unit (the other unit is not read).
\* MMM takes the first word of str, which must begin with a month name; the
\* words of the inputs begin at the first character of str.
Moment(str, fmt) ==
  CASE fmt = "MMM" ->
         LET low == Lower(str)
         IN  IF \E k \in 1..12 : IsMonthName(low, k)
             THEN [valid |-> TRUE, year |-> 0,
                   month |-> (CHOOSE k \in 1..12 : IsMonthName(low, k)) - 1]
             ELSE [valid |-> FALSE, month |-> 0, year |-> 0]
    [] fmt = "M" ->
         LET run == DigitRun(str, 2)
             v == ToInt(run)
         IN  [valid |-> run # "" /\ v >= 1 /\ v <= 12, month |-> v - 1, year |-> 0]
    [] fmt = "YYYY" ->
         LET run == DigitRun(str, 4)
             v == ToInt(run)
         IN  [valid |-> run # "", month |-> 0,
              year |-> IF Len(run) = 2 THEN parseTwoDigitYear(v) ELSE v]

\* the loop of momentParser: the unit of the first format that parses validly
RECURSIVE FirstValid(_, _, _, _)
FirstValid(unit, formats, str, k) ==
  IF k > Len(formats) THEN [valid |-> FALSE, val |-> 0]
  ELSE LET formatted == Moment(str, formats[k])
       IN  IF formatted.valid THEN [valid |-> TRUE, val |-> formatted[unit]]
           ELSE FirstValid(unit, formats, str, k + 1)

momentParser(unit, formats, s, i) ==
  LET e == TextEnd(s, i)
      r == FirstValid(unit, formats, Slice(s, i, e), 1)
  IN  IF r.valid THEN Ok(r.val, e) ELSE Fail(i)

month(s, i) == momentParser("month", << "MMM", "M" >>, s, i)

year(s, i) == momentParser("year", << "YYYY" >>, s, i)

\* day(): an integer between 1 and 31
day(s, i) ==
  LET n == integer(s, i)
  IN  IF n.ok /\ n.val >= 1 /\ n.val <= 31 THEN n ELSE Fail(i)

(***************************************************************************)
(* The calendar library: dates.  A date is [y, m, d, tod]: year, zero-     *)
(* based month, day of the month and the time of day (0 is midnight).      *)
(***************************************************************************)
IsLeap(y) == (y % 4 = 0 /\ y % 100 # 0) \/ y % 400 = 0

DaysInMonth(y, m) ==
  IF m = 1 THEN (IF IsLeap(y) THEN 29 ELSE 28)
  ELSE IF m \in {3, 5, 8, 10} THEN 30 ELSE 31

\* moment([y, m, d]).isValid()
ValidDate(y, m, d) == m >= 0 /\ m <= 11 /\ d >= 1 /\ d <= DaysInMonth(y, m)

\* moment([y, m, d]).toDate(): midnight of the day
MakeDate(y, m, d) == [y |-> y, m |-> m, d |-> d, tod |-> 0]

\* moment(x).startOf('day')
StartOfDay(t) == [t EXCEPT !.tod = 0]

\* Date.setDate with an out-of-range day of the month: the date rolls over
RECURSIVE Normalize(_, _, _)
Normalize(y, m, d) ==
  IF d < 1
  THEN LET pm == IF m = 0 THEN 11 ELSE m - 1
           py == IF m = 0 THEN y - 1 ELSE y
       IN  Normalize(py, pm, d + DaysInMonth(py, pm))
  ELSE IF d > DaysInMonth(y, m)
       THEN Normalize(IF m = 11 THEN y + 1 ELSE y, IF m = 11 THEN 0 ELSE m + 1,
                      d - DaysInMonth(y, m))
       ELSE [y |-> y, m |-> m, d |-> d]

AddDays(t, n) ==
  LET r == Normalize(t.y, t.m, t.d + n)
  IN  [y |-> r.y, m |-> r.m, d |-> r.d, tod |-> t.tod]

\* setMonth: the month index is normalised and the day clamped to the month
AddMonths(t, n) ==
  LET idx == t.y * 12 + t.m + n
      yy == idx \div 12
      mm == idx % 12
      dd == IF t.d < DaysInMonth(yy, mm) THEN t.d ELSE DaysInMonth(yy, mm)
  IN  [y |-> yy, m |-> mm, d |-> dd, tod |-> t.tod]

\* a subtraction that takes a month for 30 days and a year for 365
SubtractFixedLength(t, unit, n) ==
  CASE unit = "day" -> AddDays(t, 0 - n)
    [] unit = "week" -> AddDays(t, 0 - 7 * n)
    [] unit = "month" -> AddDays(t, 0 - 30 * n)
    [] unit = "year" -> AddDays(t, 0 - 365 * n)

\* moment(t).subtract(unit, n)
Subtract(t, unit, n) ==
  CASE unit = "day" -> AddDays(t, 0 - n)
    [] unit = "week" -> AddDays(t, 0 - 7 * n)
    [] unit = "month" -> AddMonths(t, 0 - n)
    [] unit = "year" -> AddMonths(t, 0 - 12 * n)

(***************************************************************************)
(* The phrase parsers of index.js that do not recurse.  Each is a sequence:*)
(* the first failing step fails the whole parser at its starting offset.   *)
(***************************************************************************)
\* now(): 'today' or 'now'; the value was computed when the parser was built
now(s, i, today) ==
  IF string("today", s, i).ok THEN Ok(today, i + 5)
  ELSE IF string("now", s, i).ok THEN Ok(today, i + 3)
  ELSE FailDate(i)

\* yesterday(): the value was computed when the parser was built
yesterday(s, i, yest) ==
  IF string("yesterday", s, i).ok THEN Ok(yest, i + 9) ELSE FailDate(i)

\* interval(): an integer, or 'the' for 1
interval(s, i) ==
  IF integer(s, i).ok THEN integer(s, i)
  ELSE IF string("the", s, i).ok THEN Ok(1, i + 3)
  ELSE Fail(i)

Units == << "day", "week", "month", "year" >>

\* intervalUnit(): a unit name and an optional 's'
intervalUnit(s, i) ==
  IF \E k \in 1..4 : string(Units[k], s, i).ok
  THEN LET u == Units[CHOOSE k \in 1..4 : string(Units[k], s, i).ok]
           e == i + Len(u)
       IN  [ok |-> TRUE, val |-> u, off |-> IF string("s", s, e).ok THEN e + 1 ELSE e]
  ELSE [ok |-> FALSE, val |-> "", off |-> i]

\* relativeDate() up to its reference: or(interval(), value(1)),
\* maybe(spaces()), intervalUnit(), spaces()
relativeHead(s, i) ==
  LET iv == IF interval(s, i).ok THEN interval(s, i) ELSE Ok(1, i)
      un == intervalUnit(s, maybeSpaces(s, iv.off))
      sp == spaces(s, un.off)
  IN  IF un.ok /\ sp.ok
      THEN [ok |-> TRUE, n |-> iv.val, unit |-> un.val, off |-> sp.off]
      ELSE [ok |-> FALSE, n |-> 0, unit |-> "", off |-> i]

\* 'ago' as the current moment, its time of day kept
agoUntruncated(s, i, clock) ==
  IF string("ago", s, i).ok THEN Ok(clock, i + 3) ELSE FailDate(i)

\* the first alternative of referenceDate(): 'ago' is the current day
ago(s, i, clock) ==
  IF string("ago", s, i).ok THEN Ok(StartOfDay(clock), i + 3) ELSE FailDate(i)

Prepositions == << "from", "before", "until" >>

\* the second alternative of referenceDate() up to its recursive call:
\* or(string('from'), string('before'), string('until')), spaces()
preposition(s, i) ==
  IF \E k \in 1..3 : string(Prepositions[k], s, i).ok
  THEN LET e == i + Len(Prepositions[CHOOSE k \in 1..3 : string(Prepositions[k], s, i).ok])
       IN  IF spaces(s, e).ok THEN spaces(s, e) ELSE Fail(i)
  ELSE Fail(i)

\* a reference shifted into the future
shiftedForward(reference, unit, n) == Subtract(reference, unit, 0 - n)

\* the value of relativeDate(): the reference shifted by the interval
shifted(reference, unit, n) == Subtract(reference, unit, n)

\* the date a locale parser assembles, or its failure ('invalid date')
assemble(y, m, d, i, off) ==
  IF ValidDate(y, m, d) THEN Ok(MakeDate(y, m, d), off) ELSE FailDate(i)

\* monthAndYear() that takes the month for a one-based one
monthAndYearOneBased(s, i) ==
  LET mo == month(s, i)
      sp == spaces(s, mo.off)
      yr == year(s, sp.off)
  IN  IF mo.ok /\ sp.ok /\ yr.ok THEN assemble(yr.val, mo.val + 1, 1, i, yr.off)
      ELSE FailDate(i)

monthAndYear(s, i) ==
  LET mo == month(s, i)
      sp == spaces(s, mo.off)
      yr == year(s, sp.off)
  IN  IF mo.ok /\ sp.ok /\ yr.ok THEN assemble(yr.val, mo.val, 1, i, yr.off)
      ELSE FailDate(i)

monthAndDay(s, i, clock) ==
  LET mo == month(s, i)
      sp == spaces(s, mo.off)
      dy == day(s, sp.off)
  IN  IF mo.ok /\ sp.ok /\ dy.ok THEN assemble(clock.y, mo.val, dy.val, i, dy.off)
      ELSE FailDate(i)

\* fullDate() that insists on the comma
fullDateCommaRequired(s, i) ==
  LET mo == month(s, i)
      sp == spaces(s, mo.off)
      dy == day(s, sp.off)
      cm == string(",", s, dy.off)
      yr == year(s, maybeSpaces(s, cm.off))
  IN  IF mo.ok /\ sp.ok /\ dy.ok /\ cm.ok /\ yr.ok
      THEN assemble(yr.val, mo.val, dy.val, i, yr.off)
      ELSE FailDate(i)

fullDate(s, i) ==
  LET mo == month(s, i)
      sp == spaces(s, mo.off)
      dy == day(s, sp.off)
      cm == IF string(",", s, dy.off).ok THEN dy.off + 1 ELSE dy.off
      yr == year(s, maybeSpaces(s, cm))
  IN  IF mo.ok /\ sp.ok /\ dy.ok /\ yr.ok
      THEN assemble(yr.val, mo.val, dy.val, i, yr.off)
      ELSE FailDate(i)

\* an entry point that does not ask for the end of the input
followedAnywhere(s, r, start) == Ok(r.val, maybeSpaces(s, r.off))

\* followedBy(..., maybe(spaces()), eof()) of englishDateParser()
followed(s, r, start) ==
  IF eof(s, maybeSpaces(s, r.off)) THEN Ok(r.val, Len(s)) ELSE FailDate(start)

(***************************************************************************)
(* The inputs and the current moments the model draws from                 *)
(***************************************************************************)
\* the largest interval count written in an input
MaxCount == 2

\* the longest input, the nested phrases apart, that a later call pads or
\* uses as the reference of a relative date
MaxRefLen == 9

\* the deepest nesting of englishDateParser() invocations the model follows
MaxDepth == 6

MonthTokens == {"Feb", "Aug"}

DayTokens == {"5", "29", "30", "31"}

YearTokens == {"2013", "2024", "0005"}

Separators == {" ", ", ", ","}

CountTokens == {"", "the ", "0 ", "-2 "} \cup {Ch(DigitChars, n + 1) \o " " : n \in 1..MaxCount}

UnitTokens == {Units[k] : k \in 1..4} \cup {Units[k] \o "s" : k \in 1..4}

FullDates ==
  {m \o " " \o d \o p \o y : m \in MonthTokens, d \in {"5", "30"}, p \in Separators, y \in YearTokens}
    \cup {"Feb 29, 2024", "Feb 29 2024", "Feb 29 2013", "august 31, 2013", "Aug 20 2013please"}

PartialDates ==
  {m \o " " \o d : m \in MonthTokens, d \in DayTokens}
    \cup {m \o " " \o y : m \in MonthTokens, y \in YearTokens}
    \cup {"april 31", "Aug 32", "Aug 0", "august 2011", "Aug 0031", "Aug 0032", "Aug",
          "3 15", "Aug 5x"}

Keywords == {"today", "now", "yesterday"}

AgoPhrases ==
  {c \o u \o " ago" : c \in CountTokens, u \in UnitTokens} \cup {"2days ago", "3 days", "days ago"}

NestedPhrases ==
  {"day from now", "2 days before Aug 30", "1 month from 2 days before Aug 30",
   "the day before yesterday", "week until 2 days from Feb 30 2013"}

Garbled ==
  UNION {{x \o " please", "please " \o x} : x \in {"today", "yesterday", "Aug 30", "2 days ago"}}

Inputs ==
  FullDates \cup PartialDates \cup Keywords \cup AgoPhrases \cup NestedPhrases
    \cup Garbled \cup {""}

\* the current moments: a leap year's 31 March in the afternoon, and the
\* midnight that begins a common year
Clocks ==
  {[y |-> 2024, m |-> 2, d |-> 31, tod |-> 15], [y |-> 2023, m |-> 0, d |-> 1, tod |-> 0]}

\* how a call of parseDate came about: the first call on an input, a call on
\* the previous input with whitespace around it, or a call on a relative
\* phrase (count c, unit u, preposition p) whose reference is the previous
\* input
FirstCall == [kind |-> "first", c |-> "", u |-> "", p |-> "", lead |-> "", trail |-> ""]

RelativeCalls ==
  {[kind |-> "relative", c |-> c, u |-> Units[k] \o (IF c \in {"", "the ", "1 "} THEN "" ELSE "s"),
    p |-> Prepositions[j], lead |-> "", trail |-> ""] : c \in CountTokens, k \in 1..4, j \in 1..3}

PaddedCalls ==
  {[kind |-> "padded", c |-> "", u |-> "", p |-> "", lead |-> l, trail |-> r]
     : l \in {"", " "}, r \in {"", " ", "\t "}} \ {[FirstCall EXCEPT !.kind = "padded"]}

CallText(c, x) ==
  IF c.kind = "relative" THEN c.c \o c.u \o " " \o c.p \o " " \o x
  ELSE c.lead \o x \o c.trail

(***************************************************************************)
(* The state: one call of parseDate at a time.  stack holds the            *)
(* invocations of englishDateParser() in progress, the innermost last.     *)
(***************************************************************************)
VARIABLES input, clock, stack, pc, ret, result, prev, call

vars == << input, clock, stack, pc, ret, result, prev, call >>

\* an invocation that parses the input from its beginning again
FrameRestart(i, clk) ==
  [start |-> 0, pos |-> 0, today |-> StartOfDay(clk),
   yest |-> StartOfDay(Subtract(clk, "day", 1)), n |-> 0, unit |-> "",
   tried |-> << >>, won |-> "", stop |-> 0]

\* an invocation of englishDateParser() at offset i: building the parser
\* evaluates the values of now() and yesterday().  pos is the offset after
\* the leading whitespace, n and unit are what relativeDate() has bound,
\* tried lists the alternatives run so far with the offset each was run at,
\* won is the alternative that succeeded and stop the offset it reached.
Frame(i, clk) ==
  [start |-> i, pos |-> i, today |-> StartOfDay(clk),
   yest |-> StartOfDay(Subtract(clk, "day", 1)), n |-> 0, unit |-> "",
   tried |-> << >>, won |-> "", stop |-> i]

Top == stack[Len(stack)]

SetTop(f) == [stack EXCEPT ![Len(stack)] = f]

NoCall == [input |-> "", result |-> FailDate(0)]

Init ==
  /\ input \in Inputs
  /\ clock \in Clocks
  /\ stack = << Frame(0, clock) >>
  /\ pc = "enter"
  /\ ret = FailDate(0)
  /\ result = FailDate(0)
  /\ prev = NoCall
  /\ call = FirstCall

\* an alternation that gives up on the locale dates once fullDate() fails
NextAltSkipping(alt) ==
  CASE alt = "fullDate" -> "relativeDate"
    [] alt = "monthAndDay" -> "monthAndYear"
    [] alt = "monthAndYear" -> "relativeDate"
    [] alt = "relativeDate" -> "now"
    [] alt = "now" -> "yesterday"
    [] alt = "yesterday" -> "fail"

\* the order of the alternatives: localeDate() is or(fullDate, monthAndDay,
\* monthAndYear) and englishDateParser() or(localeDate, relativeDate, now,
\* yesterday); "fail" stands for the alternation having run out
NextAlt(alt) ==
  CASE alt = "fullDate" -> "monthAndDay"
    [] alt = "monthAndDay" -> "monthAndYear"
    [] alt = "monthAndYear" -> "relativeDate"
    [] alt = "relativeDate" -> "now"
    [] alt = "now" -> "yesterday"
    [] alt = "yesterday" -> "fail"

\* or(): an alternative has been run from frame f with reply r.  The first
\* one that succeeds is the result of the alternation; a failed one hands
\* over to the next, and the last one's failure fails the alternation.
Alternative(alt, r, f) ==
  LET g == [f EXCEPT !.tried = Append(@, [alt |-> alt, at |-> f.pos])]
  IN  /\ stack' = SetTop(IF r.ok THEN [g EXCEPT !.won = alt, !.stop = r.off] ELSE g)
      /\ IF r.ok
         THEN ret' = r /\ pc' = "followed"
         ELSE IF NextAlt(alt) = "fail"
              THEN ret' = FailDate(f.start) /\ pc' = "return"
              ELSE ret' = ret /\ pc' = NextAlt(alt)
      /\ UNCHANGED << input, clock, result, prev, call >>

\* and(maybe(spaces()), ...): leading whitespace is skipped
Enter ==
  /\ pc = "enter"
  /\ stack' = SetTop([Top EXCEPT !.pos = maybeSpaces(input, Top.start)])
  /\ pc' = "fullDate"
  /\ UNCHANGED << input, clock, ret, result, prev, call >>

TryFullDate == pc = "fullDate" /\ Alternative("fullDate", fullDate(input, Top.pos), Top)

TryMonthAndDay ==
  pc = "monthAndDay" /\ Alternative("monthAndDay", monthAndDay(input, Top.pos, clock), Top)

TryMonthAndYear ==
  pc = "monthAndYear" /\ Alternative("monthAndYear", monthAndYear(input, Top.pos), Top)

\* the frame after relativeDate() has bound _interval and _intervalUnit
Bound(f, h) == IF h.ok THEN [f EXCEPT !.n = h.n, !.unit = h.unit] ELSE f

\* relativeDate() reaches the recursive call of referenceDate(): its head
\* matches, 'ago' does not follow, and a preposition with whitespace does
Recurses(s, i, clk) ==
  LET h == relativeHead(s, i)
  IN  h.ok /\ ~ago(s, h.off, clk).ok /\ preposition(s, h.off).ok

\* relativeDate() whose reference is not a recursive one: the head fails,
\* or the reference is 'ago', or no preposition follows
TryRelativeDate ==
  /\ pc = "relativeDate"
  /\ ~Recurses(input, Top.pos, clock)
  /\ LET h == relativeHead(input, Top.pos)
         a == ago(input, h.off, clock)
     IN  /\ Alternative("relativeDate",
                        IF h.ok /\ a.ok THEN Ok(shifted(a.val, h.unit, h.n), a.off)
                        ELSE FailDate(Top.pos),
                        Bound(Top, h))

\* relativeDate() whose reference is a preposition and a date: the interval
\* and the unit are bound, and englishDateParser() is invoked after the
\* preposition and its whitespace
Descend ==
  /\ pc = "relativeDate"
  /\ Len(stack) < MaxDepth
  /\ Recurses(input, Top.pos, clock)
  /\ LET h == relativeHead(input, Top.pos)
         p == preposition(input, h.off)
     IN  /\ stack' = Append(SetTop(Bound(Top, h)), Frame(p.off, clock))
  /\ pc' = "enter"
  /\ UNCHANGED << input, clock, ret, result, prev, call >>

\* the recursive invocation has returned to relativeDate()
Resume ==
  /\ pc = "resume"
  /\ Alternative("relativeDate",
                 IF ret.ok THEN Ok(shifted(ret.val, Top.unit, Top.n), ret.off)
                 ELSE FailDate(Top.pos),
                 Top)

TryNow == pc = "now" /\ Alternative("now", now(input, Top.pos, Top.today), Top)

TryYesterday ==
  pc = "yesterday" /\ Alternative("yesterday", yesterday(input, Top.pos, Top.yest), Top)

\* followedBy(..., maybe(spaces()), eof())
Followed ==
  /\ pc = "followed"
  /\ ret' = followed(input, ret, Top.start)
  /\ pc' = "return"
  /\ UNCHANGED << input, clock, stack, result, prev, call >>

\* an invocation ends: parseDate returns, or the enclosing relativeDate()
\* goes on
Return ==
  /\ pc = "return"
  /\ IF Len(stack) = 1
     THEN /\ result' = ret
          /\ pc' = "done"
          /\ stack' = stack
     ELSE /\ result' = result
          /\ pc' = "resume"
          /\ stack' = SubSeq(stack, 1, Len(stack) - 1)
  /\ UNCHANGED << input, clock, ret, prev, call >>

\* a later call of parseDate, at the same moment, on a text made from the
\* input of the first call
CallOn(c) ==
  /\ pc = "done"
  /\ prev = NoCall
  /\ Len(input) <= MaxRefLen \/ input \in NestedPhrases
  /\ call' = c
  /\ input' = CallText(c, input)
  /\ prev' = [input |-> input, result |-> result]
  /\ stack' = << Frame(0, clock) >>
  /\ pc' = "enter"
  /\ ret' = FailDate(0)
  /\ result' = FailDate(0)
  /\ UNCHANGED clock

ParseRelativeTo == \E c \in RelativeCalls : CallOn(c)

ParsePadded == \E c \in PaddedCalls : CallOn(c)

Next ==
  \/ Enter
  \/ TryFullDate
  \/ TryMonthAndDay
  \/ TryMonthAndYear
  \/ TryRelativeDate
  \/ Descend
  \/ Resume
  \/ TryNow
  \/ TryYesterday
  \/ Followed
  \/ Return
  \/ ParseRelativeTo
  \/ ParsePadded

Spec == Init /\ [][Next]_vars

(***************************************************************************)
(* What the claims speak of, stated apart from the parser: the texts of    *)
(* months, days, years, counts and units with the values they denote, and  *)
(* the Gregorian calendar.                                                 *)
(***************************************************************************)
Done == pc = "done"

MonthCases ==
  {[txt |-> "Feb", m |-> 1], [txt |-> "Aug", m |-> 7], [txt |-> "august", m |-> 7],
   [txt |-> "april", m |-> 3]}

DayCases ==
  {[txt |-> "5", d |-> 5], [txt |-> "29", d |-> 29], [txt |-> "30", d |-> 30],
   [txt |-> "31", d |-> 31]}

YearCases ==
  {[txt |-> "2013", y |-> 2013], [txt |-> "2024", y |-> 2024], [txt |-> "2011", y |-> 2011],
   [txt |-> "0032", y |-> 32], [txt |-> "0031", y |-> 31], [txt |-> "0005", y |-> 5]}

MonthLengths == << 31, 28, 31, 30, 31, 30, 31, 31, 30, 31, 30, 31 >>

MonthLength(y, m) ==
  IF m = 1 /\ ((y % 4 = 0 /\ y % 100 # 0) \/ y % 400 = 0) THEN 29 ELSE MonthLengths[m + 1]

RealDay(y, m, d) == m \in 0..11 /\ d >= 1 /\ d <= MonthLength(y, m)

Midnight(y, m, d) == [y |-> y, m |-> m, d |-> d, tod |-> 0]

\* the number of the day in the count of days of the Gregorian calendar
DayNumber(t) ==
  LET a == (13 - t.m) \div 12
      yy == t.y + 4800 - a
      mm == t.m + 1 + 12 * a - 3
  IN  t.d + (153 * mm + 2) \div 5 + 365 * yy + yy \div 4 - yy \div 100 + yy \div 400 - 32045

MonthNumber(t) == 12 * t.y + t.m

CountOf(c) ==
  CASE c \in {"", "the "} -> 1
    [] c = "0 " -> 0
    [] c = "-2 " -> 0 - 2
    [] OTHER -> CHOOSE n \in 1..9 : c = Ch(DigitChars, n + 1) \o " "

UnitOf(u) == Units[CHOOSE k \in 1..4 : u \in {Units[k], Units[k] \o "s"}]

AltOrder == << "fullDate", "monthAndDay", "monthAndYear", "relativeDate", "now", "yesterday" >>

AltNames(f) == [j \in 1..Len(f.tried) |-> f.tried[j].alt]

OnlySpace(s, from, to) == \A j \in (from + 1)..to : Ch(s, j) \in Whitespace

(***************************************************************************)
(* The claims                                                              *)
(***************************************************************************)
\* C1: for every month name, day and year that make a real Gregorian day,
\* "M D, Y" and "M D Y" are both accepted and both yield midnight of exactly
\* that day: the comma is optional and changes nothing.
C1_FullDate ==
  Done =>
    \A mc \in MonthCases, dc \in DayCases, yc \in YearCases, sep \in {" ", ", "} :
      (input = mc.txt \o " " \o dc.txt \o sep \o yc.txt /\ RealDay(yc.y, mc.m, dc.d))
        => (result.ok /\ result.val = Midnight(yc.y, mc.m, dc.d))

C1_Witness ==
  Done /\ input = "Feb 29 2024" /\ result.ok /\ result.val = Midnight(2024, 1, 29)

\* C2: a relative phrase "N u p X" whose reference X is accepted is accepted
\* and yields the date of X minus N units of u, whichever of the three
\* prepositions is written.
C2_RelativeToReference ==
  (Done /\ call.kind = "relative" /\ prev.result.ok)
    => (result.ok /\ result.val = Subtract(prev.result.val, UnitOf(call.u), CountOf(call.c)))

C2_Witness ==
  /\ Done /\ call.kind = "relative" /\ call.p = "until" /\ call.c = "2 "
  /\ prev.input = "1 month from 2 days before Aug 30" /\ result.ok
  /\ result.val # prev.result.val

\* C3: for every positive count N and every unit, singular or plural,
\* "N u ago" yields the start of the current day minus N units by the
\* calendar: N or 7N days earlier in the count of days; N months or N years
\* earlier with the same day of the month, clamped to the length of the month.
C3_Ago ==
  Done =>
    \A n \in 1..MaxCount, k \in 1..4, pl \in {"", "s"} :
      input = Ch(DigitChars, n + 1) \o " " \o Units[k] \o pl \o " ago"
        => /\ result.ok
           /\ result.val.tod = 0
           /\ RealDay(result.val.y, result.val.m, result.val.d)
           /\ k = 1 => DayNumber(result.val) = DayNumber(clock) - n
           /\ k = 2 => DayNumber(result.val) = DayNumber(clock) - 7 * n
           /\ k = 3 => MonthNumber(result.val) = MonthNumber(clock) - n
           /\ k = 4 => MonthNumber(result.val) = MonthNumber(clock) - 12 * n
           /\ k \in {3, 4} =>
                result.val.d = IF clock.d < MonthLength(result.val.y, result.val.m)
                               THEN clock.d ELSE MonthLength(result.val.y, result.val.m)

C3_Witness ==
  Done /\ input = "1 month ago" /\ clock.d = 31 /\ result.val = Midnight(2024, 1, 29)

\* C4: "<Month> <d>", where day d does not exist in that month of the
\* current year, yields no date at all.
C4_InvalidDayRejected ==
  Done =>
    \A mc \in MonthCases, dc \in DayCases :
      (input = mc.txt \o " " \o dc.txt /\ ~RealDay(clock.y, mc.m, dc.d)) => ~result.ok

\* C5: an accepted input consists of the text one alternative matched with
\* nothing but whitespace before and after it; and an accepted input with
\* whitespace added before or after it is accepted with the same date.
C5_WholeInput ==
  /\ (Done /\ result.ok)
       => /\ Top.won # ""
          /\ OnlySpace(input, 0, Top.pos)
          /\ OnlySpace(input, Top.stop, Len(input))
  /\ (Done /\ call.kind = "padded" /\ prev.result.ok)
       => (result.ok /\ result.val = prev.result.val)

C5_Witness ==
  /\ Done /\ call.kind = "padded" /\ call.lead = " " /\ call.trail = "\t "
  /\ result.ok /\ Top.pos = 1 /\ Top.stop < Len(input)

\* C6 as it stands: "M Y" yields day 1 of month M of year Y for every
\* 4-digit year, "M D" the day D of month M of the current year, each after
\* the more specific alternatives have failed.
C6_DefaultsEveryYear ==
  Done =>
    /\ \A mc \in MonthCases, yc \in YearCases :
         input = mc.txt \o " " \o yc.txt
           => /\ result.ok /\ result.val = Midnight(yc.y, mc.m, 1)
              /\ AltNames(Top) = << "fullDate", "monthAndDay", "monthAndYear" >>
    /\ \A mc \in MonthCases, dc \in DayCases :
         (input = mc.txt \o " " \o dc.txt /\ RealDay(clock.y, mc.m, dc.d))
           => /\ result.ok /\ result.val = Midnight(clock.y, mc.m, dc.d)
              /\ AltNames(Top) = << "fullDate", "monthAndDay" >>

\* C6, amended: "M Y" yields day 1 of month M of year Y for every 4-digit
\* year whose number is greater than 31 (one that does not read as a day of
\* the month); "M D" yields the day D of month M of the current year when
\* that day exists; each after the more specific alternatives have failed.
C6_Defaults ==
  Done =>
    /\ \A mc \in MonthCases, yc \in YearCases :
         (input = mc.txt \o " " \o yc.txt /\ yc.y > 31)
           => /\ result.ok /\ result.val = Midnight(yc.y, mc.m, 1)
              /\ AltNames(Top) = << "fullDate", "monthAndDay", "monthAndYear" >>
    /\ \A mc \in MonthCases, dc \in DayCases :
         (input = mc.txt \o " " \o dc.txt /\ RealDay(clock.y, mc.m, dc.d))
           => /\ result.ok /\ result.val = Midnight(clock.y, mc.m, dc.d)
              /\ AltNames(Top) = << "fullDate", "monthAndDay" >>

C6_Witness ==
  /\ Done /\ input = "Aug 0032" /\ result.ok /\ Top.won = "monthAndYear"
  /\ result.val = Midnight(32, 7, 1)

\* C7: every date that an invocation of the grammar yields, and so every
\* date parseDate returns, has no time of day, whatever the time of day of
\* the current moment.
C7_Midnight ==
  /\ (Done /\ result.ok) => result.val.tod = 0
  /\ (pc \in {"followed", "return", "resume"} /\ ret.ok) => ret.val.tod = 0

C7_Witness ==
  /\ Done /\ result.ok /\ clock.tod # 0 /\ call.kind = "relative"
  /\ Top.won = "relativeDate" /\ prev.input = "month ago"

\* C8 as it stands: an input is rejected only after every alternative has
\* been tried, an alternative that matched only a prefix counting as failed.
C8_RejectedAfterAllTried == (Done /\ ~result.ok) => AltNames(Top) = AltOrder

\* C8, amended: the alternatives of an invocation are tried in their order,
\* each from the same offset, and one is tried only after all the earlier
\* ones have failed, be it on syntax or on calendar validation; the first
\* that succeeds ends the alternation, also when it matched only a prefix:
\* an input is rejected either after all alternatives have failed or after
\* the successful one has left input that the end-of-input check refuses,
\* and then the later alternatives are not tried.
C8_OrderedChoice ==
  /\ \A k \in 1..Len(stack) :
       LET f == stack[k]
       IN  /\ Len(f.tried) <= 6
           /\ AltNames(f) = SubSeq(AltOrder, 1, Len(f.tried))
           /\ \A j \in 1..Len(f.tried) : f.tried[j].at = f.pos
           /\ f.won # "" => (Len(f.tried) > 0 /\ f.won = f.tried[Len(f.tried)].alt)
           /\ (k = Len(stack) /\ pc \in {"monthAndDay", "monthAndYear", "relativeDate", "now", "yesterday"})
                => (f.won = "" /\ Len(f.tried) < 6 /\ AltOrder[Len(f.tried) + 1] = pc)
  /\ (Done /\ ~result.ok)
       => \/ Top.won = "" /\ AltNames(Top) = AltOrder
          \/ Top.won # "" /\ ~eof(input, SpacesEnd(input, Top.stop))

C8_Witness == Done /\ ~result.ok /\ Top.won = "now" /\ input = "today please"

\* C9: every interval that relativeDate binds is at least 1, and a relative
\* phrase never yields a date later than its reference.
C9_PositiveInterval ==
  /\ \A k \in 1..Len(stack) : stack[k].unit # "" => stack[k].n >= 1
  /\ (Done /\ call.kind = "relative" /\ prev.result.ok /\ result.ok)
       => DayNumber(result.val) <= DayNumber(prev.result.val)

\* the steps an invocation has left, by the place it is at
StepsLeft(p) ==
  CASE p = "enter" -> 10
    [] p = "fullDate" -> 9
    [] p = "monthAndDay" -> 8
    [] p = "monthAndYear" -> 7
    [] p = "relativeDate" -> 6
    [] p = "resume" -> 5
    [] p = "now" -> 4
    [] p = "yesterday" -> 3
    [] p = "followed" -> 2
    [] p = "return" -> 1
    [] p = "done" -> 0

\* a bound on the steps a call has left: those of the innermost invocation,
\* those of the enclosing ones once resumed, and those of the invocations
\* that the input after the innermost start still has room for
Rank ==
  StepsLeft(pc) + 10 * (Len(stack) - 1)
    + (IF pc \in {"enter", "fullDate", "monthAndDay", "monthAndYear", "relativeDate"}
       THEN 20 * (Len(input) - Top.start) ELSE 0)

StrictOffsets ==
  /\ \A k \in 1..(Len(stack) - 1) : stack[k].start < stack[k + 1].start
  /\ \A k \in 1..Len(stack) : stack[k].start <= Len(input)
  /\ Len(stack) <= Len(input) + 1

\* a call that has not returned can take a step: the only guard beside the
\* place the call is at is the depth that Descend follows
CanStep ==
  \/ pc \in {"enter", "fullDate", "monthAndDay", "monthAndYear", "resume", "now",
             "yesterday", "followed", "return"}
  \/ pc = "relativeDate" /\ (Recurses(input, Top.pos, clock) => Len(stack) < MaxDepth)

\* C10: parseDate terminates: every recursive invocation of the grammar
\* starts at an offset strictly greater than that of the invocation around
\* it, so the depth is bounded by the length of the input; a call that has
\* not returned can always take a step, and every step lowers a bound on the
\* steps left.
C10_Terminates ==
  /\ [](StrictOffsets /\ (Done \/ CanStep))
  /\ [][~Done => (Rank' < Rank /\ Rank' >= 0)]_vars

C10_Witness == Len(stack) >= 3 /\ pc = "enter" /\ Top.start > stack[2].start

====
